---- MODULE Spec2Model ----
(***************************************************************************)
(* gitlab_rss_mailer: a batch job that fetches the configured feeds, diffs *)
(* their entries against a JSON cache of already seen entry ids, rewrites  *)
(* the cache and mails one report per feed that has new entries.           *)
(*                                                                         *)
(* The model follows src/gitlab_rss_mailer/__init__.py (FeedEntry, Feed,   *)
(* Runner) and src/gitlab_rss_mailer/__main__.py (main).  One invocation   *)
(* of the program is a process p; the cache file and the SMTP server's     *)
(* mailbox are shared by all invocations.                                  *)
(***************************************************************************)
EXTENDS Naturals, Sequences, FiniteSets, TLC

(***************************************************************************)
(* Bounds of the model.                                                    *)
(***************************************************************************)
\* Invocations of the program in one behaviour.
MaxRuns == 2
\* Entries one url returns in one fetch.
MaxEntries == 1

(***************************************************************************)
(* Inputs.                                                                 *)
(***************************************************************************)
\* Invocation slots: at most two invocations are alive at the same time.
Procs == {1, 2}

\* The entries feedparser may return for a url (feedparser dictionaries).
RawPool ==
    { [id |-> "1", title |-> "t1", author |-> "a1", link |-> "l1"],
      [id |-> "2", title |-> "t2", author |-> "a2", link |-> "l2"] }

\* Sequences over S of length at most n.
BSeq(S, n) == UNION { [1..k -> S] : k \in 0..n }

\* What one feedparser.parse(url)["entries"] may return: an id is unique within
\* one feed document.
FetchOutcomes ==
    { es \in BSeq(RawPool, MaxEntries) :
         \A m, n \in 1..Len(es) : es[m].id = es[n].id => m = n }

\* The "feeds" section of the configuration file, in document order.
ConfigFeeds ==
    << [name |-> "issues", raw_config |-> [title |-> "Issues", urls |-> <<"u1", "u2">>]],
       [name |-> "mrs",    raw_config |-> [title |-> "MRs",    urls |-> <<"u3">>]] >>

\* The "smtp" section of the configuration file.
ConfigSmtp ==
    [host |-> "mx", port |-> "25", protocol |-> "tls", username |-> "u",
     password |-> "p", email_from |-> "from@x", email_to |-> "to@x"]

(***************************************************************************)
(* Python values.  A dict is a sequence of items [k, v] with distinct keys *)
(* in insertion order.                                                     *)
(***************************************************************************)
DictKeys(d) == { d[n].k : n \in 1..Len(d) }

DictHas(d, key) == key \in DictKeys(d)

\* d.get(key, default)
DictGet(d, key, default) ==
    IF DictHas(d, key)
    THEN d[CHOOSE n \in 1..Len(d) : d[n].k = key].v
    ELSE default

\* d[key] = value: an existing key keeps its place, a new one goes last.
DictSet(d, key, value) ==
    IF DictHas(d, key)
    THEN [n \in 1..Len(d) |-> IF d[n].k = key THEN [k |-> key, v |-> value] ELSE d[n]]
    ELSE Append(d, [k |-> key, v |-> value])

(***************************************************************************)
(* The cache file: JSON text, character by character.  The names and ids   *)
(* are strings that json.dumps writes as they are (no quote, no backslash, *)
(* no control character), and a cache value is a list of strings.          *)
(***************************************************************************)
\* "s" as json.dumps writes a string.
DumpString(str) == "\"" \o str \o "\""

\* The elements of a list of strings, separated by ", ".
RECURSIVE DumpElements(_, _)
DumpElements(l, n) ==
    IF n > Len(l) THEN ""
    ELSE (IF n > 1 THEN ", " ELSE "") \o DumpString(l[n]) \o DumpElements(l, n + 1)

\* The members of a dict of lists of strings, separated by ", ".
RECURSIVE DumpMembers(_, _)
DumpMembers(d, n) ==
    IF n > Len(d) THEN ""
    ELSE (IF n > 1 THEN ", " ELSE "")
         \o DumpString(d[n].k) \o ": [" \o DumpElements(d[n].v, 1) \o "]"
         \o DumpMembers(d, n + 1)

\* A serializer that leaves out the keys whose list is empty.
dumps_skip_empty(d) ==
    LET NonEmpty(item) == Len(item.v) > 0
    IN  "{" \o DumpMembers(SelectSeq(d, NonEmpty), 1) \o "}"

\* json.dumps(self.feeds_cache)
dumps(d) == "{" \o DumpMembers(d, 1) \o "}"

\* The character of text at pos, "" past its end.
CharAt(text, pos) == IF pos <= Len(text) THEN SubSeq(text, pos, pos) ELSE ""

\* json.decoder.WHITESPACE
Whitespace == {" ", "\t", "\n", "\r"}

\* The first position at or after pos that holds no whitespace.
RECURSIVE SkipWhitespace(_, _)
SkipWhitespace(text, pos) ==
    IF CharAt(text, pos) \in Whitespace THEN SkipWhitespace(text, pos + 1) ELSE pos

\* The decoder gave up: JSONDecodeError.
DecodeFailed == [ok |-> FALSE, v |-> <<>>, pos |-> 0]

\* The position of the next quote at or after pos, 0 when there is none.
RECURSIVE ClosingQuote(_, _)
ClosingQuote(text, pos) ==
    IF pos > Len(text) THEN 0
    ELSE IF CharAt(text, pos) = "\"" THEN pos
    ELSE ClosingQuote(text, pos + 1)

\* The string whose opening quote is at pos - 1, and the position after it.
ParseString(text, pos) ==
    LET close == ClosingQuote(text, pos)
    IN  IF close = 0 THEN DecodeFailed
        ELSE [ok |-> TRUE, v |-> SubSeq(text, pos, close - 1), pos |-> close + 1]

\* The elements of an array from the one that starts at pos, up to its "]":
\* after an element comes "]" or a "," and another element.
RECURSIVE ParseElements(_, _, _)
ParseElements(text, pos, acc) ==
    IF CharAt(text, pos) # "\"" THEN DecodeFailed
    ELSE LET str == ParseString(text, pos + 1)
             next == SkipWhitespace(text, str.pos)
         IN  IF ~str.ok THEN DecodeFailed
             ELSE IF CharAt(text, next) = "]"
                  THEN [ok |-> TRUE, v |-> Append(acc, str.v), pos |-> next + 1]
             ELSE IF CharAt(text, next) = ","
                  THEN ParseElements(text, SkipWhitespace(text, next + 1), Append(acc, str.v))
             ELSE DecodeFailed

\* The list whose "[" is at pos - 1, and the position after its "]".
ParseArray(text, pos) ==
    LET first == SkipWhitespace(text, pos)
    IN  IF CharAt(text, first) = "]" THEN [ok |-> TRUE, v |-> <<>>, pos |-> first + 1]
        ELSE ParseElements(text, first, <<>>)

\* The members of an object from the one whose key starts at pos, up to its
\* "}": a key, ":", a list, then "}" or a "," and another member.  A repeated
\* key keeps its place and takes the last value.
RECURSIVE ParseMembers(_, _, _)
ParseMembers(text, pos, acc) ==
    IF CharAt(text, pos) # "\"" THEN DecodeFailed
    ELSE LET key == ParseString(text, pos + 1)
             colon == SkipWhitespace(text, key.pos)
             value == SkipWhitespace(text, colon + 1)
             arr == ParseArray(text, value + 1)
             next == SkipWhitespace(text, arr.pos)
         IN  IF ~key.ok THEN DecodeFailed
             ELSE IF CharAt(text, colon) # ":" THEN DecodeFailed
             ELSE IF CharAt(text, value) # "[" THEN DecodeFailed
             ELSE IF ~arr.ok THEN DecodeFailed
             ELSE IF CharAt(text, next) = "}"
                  THEN [ok |-> TRUE, v |-> DictSet(acc, key.v, arr.v), pos |-> next + 1]
             ELSE IF CharAt(text, next) = ","
                  THEN ParseMembers(text, SkipWhitespace(text, next + 1),
                                    DictSet(acc, key.v, arr.v))
             ELSE DecodeFailed

\* The object whose "{" is at pos - 1, and the position after its "}".
ParseObject(text, pos) ==
    LET first == SkipWhitespace(text, pos)
    IN  IF CharAt(text, first) = "}" THEN [ok |-> TRUE, v |-> <<>>, pos |-> first + 1]
        ELSE ParseMembers(text, first, <<>>)

\* JSONDecoder.decode: one object, whitespace around it and nothing after it
\* ("Extra data" otherwise).
Decode(text) ==
    LET start == SkipWhitespace(text, 1)
        obj == ParseObject(text, start + 1)
    IN  IF CharAt(text, start) # "{" THEN DecodeFailed
        ELSE IF ~obj.ok THEN DecodeFailed
        ELSE IF SkipWhitespace(text, obj.pos) <= Len(text) THEN DecodeFailed
        ELSE obj

\* json.loads raises JSONDecodeError on a text that is no JSON document: an
\* empty text, a cut one, a document followed by more text.
JSONDecodeError(text) == ~Decode(text).ok

\* json.loads(self.feeds_cache_path.read_text()), of a JSON document.
loads(text) == Decode(text).v

(***************************************************************************)
(* FeedEntry, Feed, MailConfig.                                            *)
(***************************************************************************)
\* FeedEntry.from_raw_feed_entry
from_raw_feed_entry(feed_entry) ==
    [id |-> feed_entry.id, title |-> feed_entry.title,
     author |-> feed_entry.author, url |-> feed_entry.link]

\* Feed.from_config
FeedFromConfig(name, raw_config) ==
    [name |-> name, title |-> raw_config.title, urls |-> raw_config.urls]

\* MailConfig.from_config
MailConfigFromConfig(raw_config) ==
    [smtp_host |-> raw_config.host, smtp_port |-> raw_config.port,
     smtp_protocol |-> raw_config.protocol, smtp_username |-> raw_config.username,
     smtp_password |-> raw_config.password, email_from |-> raw_config.email_from,
     email_to |-> raw_config.email_to]

\* Runner.feeds after Runner.__init__: one Feed per configured feed, in order.
feeds == [n \in 1..Len(ConfigFeeds) |-> FeedFromConfig(ConfigFeeds[n].name, ConfigFeeds[n].raw_config)]

\* Runner.mail_config after Runner.__init__.
mail_config == MailConfigFromConfig(ConfigSmtp)

\* Feed.fetch_raw: the entries of every url, in url order; parsed[n] is what
\* feedparser returned for the n-th url.
RECURSIVE fetch_raw_from(_, _)
fetch_raw_from(parsed, n) ==
    IF n > Len(parsed) THEN <<>> ELSE parsed[n] \o fetch_raw_from(parsed, n + 1)

fetch_raw(parsed) == fetch_raw_from(parsed, 1)

\* The ids of a list of entries.
EntryIds(entries) == [n \in 1..Len(entries) |-> entries[n].id]

\* x in l, for a Python list l.
InList(x, l) == \E n \in 1..Len(l) : l[n] = x

\* The loop of Feed.fetch from the n-th raw entry on.
RECURSIVE fetch_loop(_, _, _, _)
fetch_loop(raw_entries, known_ids, n, entries) ==
    IF n > Len(raw_entries) THEN entries
    ELSE LET entry == from_raw_feed_entry(raw_entries[n])
         IN  fetch_loop(raw_entries, known_ids, n + 1,
                        IF ~InList(entry.id, known_ids) THEN Append(entries, entry) ELSE entries)

\* A fetch that forgets the membership test.
fetch_unfiltered(raw_entries, known_ids) ==
    [n \in 1..Len(raw_entries) |-> from_raw_feed_entry(raw_entries[n])]

\* Feed.fetch(known_ids), raw_entries being what self.fetch_raw() returned.
fetch(raw_entries, known_ids) == fetch_loop(raw_entries, known_ids, 1, <<>>)

\* Runner.get_feed_by_name: the feed, or <<>> for None.
get_feed_by_name(feed_name) ==
    IF \E n \in 1..Len(feeds) : feeds[n].name = feed_name
    THEN <<feeds[CHOOSE n \in 1..Len(feeds) : feeds[n].name = feed_name]>>
    ELSE <<>>

\* Runner.create_mail_text: the headers and the two parts, each listing every
\* entry.  "about" is not mail text: it records the feed name and the entry ids
\* the mail reports, to trace which entries were notified.
create_mail_text(feed_name, entries) ==
    LET feed == get_feed_by_name(feed_name)[1]
        line(e) == [title |-> e.title, author |-> e.author, url |-> e.url]
    IN  [Subject |-> <<"[RSS Mailer] New entries for feed", feed.title>>,
         ReplyTo |-> mail_config.email_from,
         From |-> mail_config.email_from,
         To |-> mail_config.email_to,
         AutoSubmitted |-> "auto-generated",
         XAutoResponseSuppress |-> "All",
         plain |-> [n \in 1..Len(entries) |-> line(entries[n])],
         html |-> [n \in 1..Len(entries) |-> line(entries[n])],
         about |-> [name |-> feed_name, ids |-> EntryIds(entries)]]

(***************************************************************************)
(* State.                                                                  *)
(***************************************************************************)
VARIABLES
    file,           \* the cache file: JSON text
    serialized,     \* whether the external scheduler serializes the invocations
    runs,           \* invocations started so far
    mailbox,        \* what the SMTP server accepted: [run, mail]
    gap,            \* [run, name, id]: new entries of runs whose send_mails raised
    persisted,      \* <<name, id>>: ids some run has written to the cache file
    pc,             \* where each invocation is
    dry_run,        \* args.dry_run
    run,            \* the number of the invocation (1 for the first one started)
    file0,          \* the cache file as Runner.__init__ read it
    feeds_cache,    \* Runner.feeds_cache
    i,              \* fetch_all: position of "for feed in self.feeds"
    feed_cache,     \* fetch_all: the local feed_cache
    raw,            \* fetch: what self.fetch_raw() returned for the feed at hand
    result,         \* fetch_all: result, then main's new_entries
    mail_reports,   \* main: mail_reports
    stdout,         \* main: the reports printed
    sent,           \* send_mails: mails handed to conn.sendmail so far
    smtp,           \* send_mails: the connection
    writes          \* how often the invocation wrote the cache file

vars == <<file, serialized, runs, mailbox, gap, persisted, pc, dry_run, run, file0, feeds_cache,
          i, feed_cache, raw, result, mail_reports, stdout, sent, smtp, writes>>

locals == <<dry_run, run, file0, feeds_cache, i, feed_cache, raw, result,
            mail_reports, stdout, sent, smtp, writes>>

\* Cache files an invocation may find: no key at all, a configured feed with
\* entries, a feed that is no longer configured, keys in another order.
InitialCaches ==
    { <<>>,
      << [k |-> "old", v |-> <<"2", "1">>], [k |-> "mrs", v |-> <<>>] >>,
      << [k |-> "mrs", v |-> <<"2">>], [k |-> "issues", v |-> <<"1">>] >> }

\* The names a cache file may hold.
AllNames == {"issues", "mrs", "old"}

InitLocals ==
    /\ pc = [p \in Procs |-> "idle"]
    /\ dry_run = [p \in Procs |-> FALSE]
    /\ run = [p \in Procs |-> 0]
    /\ file0 = [p \in Procs |-> ""]
    /\ feeds_cache = [p \in Procs |-> <<>>]
    /\ i = [p \in Procs |-> 1]
    /\ feed_cache = [p \in Procs |-> <<>>]
    /\ raw = [p \in Procs |-> <<>>]
    /\ result = [p \in Procs |-> <<>>]
    /\ mail_reports = [p \in Procs |-> <<>>]
    /\ stdout = [p \in Procs |-> <<>>]
    /\ sent = [p \in Procs |-> 0]
    /\ smtp = [p \in Procs |-> "none"]
    /\ writes = [p \in Procs |-> 0]

InitShared ==
    /\ runs = 0
    /\ mailbox = {}
    /\ gap = {}
    /\ persisted = {}

\* The cache file right after open(mode='w'), and a cache file created empty.
truncated == ""

\* The scheduler starts an invocation only after the previous one has ended.
\* The cache file it finds is a JSON document or an empty file.
Init ==
    /\ file \in { dumps(d) : d \in InitialCaches } \cup { truncated }
    /\ InitShared /\ InitLocals
    /\ serialized = TRUE

\* The scheduler may also start an invocation while another one is running;
\* the first invocation finds a cache file without keys.
InitConc ==
    /\ file = dumps(<<>>)
    /\ InitShared /\ InitLocals
    /\ serialized \in BOOLEAN

\* An invocation that has started and not ended.
Active(p) == pc[p] \notin {"idle", "exit0", "raised_init", "raised_fetch", "raised_smtp"}

\* The scheduler may start invocation p: slots are taken in order; a
\* serializing scheduler waits for the end of the previous invocation, and
\* without serialization each slot runs once.
Schedulable(p) ==
    /\ ~Active(p)
    /\ \A q \in Procs : q < p => Active(q) \/ (~serialized /\ pc[q] # "idle")
    /\ serialized => \A q \in Procs : ~Active(q)
    /\ ~serialized => pc[p] = "idle"
    /\ runs < MaxRuns

(***************************************************************************)
(* main and Runner.__init__: the program starts, reads the configuration   *)
(* and the cache file.  A serializing scheduler starts it when no other    *)
(* invocation is alive, with or without --dry-run.  Without serialization  *)
(* the model follows two invocations without --dry-run that may overlap at *)
(* any step.                                                               *)
(***************************************************************************)
Start(p) ==
    /\ Schedulable(p)
    /\ ~JSONDecodeError(file)
    /\ runs' = runs + 1
    /\ \E d \in (IF serialized THEN BOOLEAN ELSE {FALSE}) :
          dry_run' = [dry_run EXCEPT ![p] = d]
    /\ run' = [run EXCEPT ![p] = runs + 1]
    /\ file0' = [file0 EXCEPT ![p] = file]
    /\ feeds_cache' = [feeds_cache EXCEPT ![p] = loads(file)]
    /\ i' = [i EXCEPT ![p] = 1]
    /\ feed_cache' = [feed_cache EXCEPT ![p] = <<>>]
    /\ raw' = [raw EXCEPT ![p] = <<>>]
    /\ result' = [result EXCEPT ![p] = <<>>]
    /\ mail_reports' = [mail_reports EXCEPT ![p] = <<>>]
    /\ stdout' = [stdout EXCEPT ![p] = <<>>]
    /\ sent' = [sent EXCEPT ![p] = 0]
    /\ smtp' = [smtp EXCEPT ![p] = "none"]
    /\ writes' = [writes EXCEPT ![p] = 0]
    /\ pc' = [pc EXCEPT ![p] = IF Len(feeds) = 0 THEN "write" ELSE "fetch"]
    /\ UNCHANGED <<file, serialized, mailbox, gap, persisted>>

\* Runner.__init__, line 128: the cache file read is no JSON document (it is
\* empty, or holds a text written over a longer one), json.loads raises and
\* the program ends before fetch_all.
StartFail(p) ==
    /\ Schedulable(p)
    /\ JSONDecodeError(file)
    /\ runs' = runs + 1
    /\ \E d \in (IF serialized THEN BOOLEAN ELSE {FALSE}) :
          dry_run' = [dry_run EXCEPT ![p] = d]
    /\ run' = [run EXCEPT ![p] = runs + 1]
    /\ file0' = [file0 EXCEPT ![p] = file]
    /\ feeds_cache' = [feeds_cache EXCEPT ![p] = <<>>]
    /\ i' = [i EXCEPT ![p] = 1]
    /\ feed_cache' = [feed_cache EXCEPT ![p] = <<>>]
    /\ raw' = [raw EXCEPT ![p] = <<>>]
    /\ result' = [result EXCEPT ![p] = <<>>]
    /\ mail_reports' = [mail_reports EXCEPT ![p] = <<>>]
    /\ stdout' = [stdout EXCEPT ![p] = <<>>]
    /\ sent' = [sent EXCEPT ![p] = 0]
    /\ smtp' = [smtp EXCEPT ![p] = "none"]
    /\ writes' = [writes EXCEPT ![p] = 0]
    /\ pc' = [pc EXCEPT ![p] = "raised_init"]
    /\ UNCHANGED <<file, serialized, mailbox, gap, persisted>>

(***************************************************************************)
(* Runner.fetch_all.                                                       *)
(***************************************************************************)
\* Lines 134-137: one feed is fetched and diffed against its cached list.
FetchFeed(p) ==
    /\ pc[p] = "fetch"
    /\ LET feed == feeds[i[p]]
       IN  \E parsed \in [1..Len(feed.urls) -> FetchOutcomes] :
              LET raw_entries == fetch_raw(parsed)
                  fc == DictGet(feeds_cache[p], feed.name, <<>>)
                  entries == fetch(raw_entries, fc)
              IN  /\ feed_cache' = [feed_cache EXCEPT ![p] = fc]
                  /\ raw' = [raw EXCEPT ![p] = raw_entries]
                  /\ result' = [result EXCEPT ![p] = DictSet(result[p], feed.name, entries)]
    /\ pc' = [pc EXCEPT ![p] = "update"]
    /\ UNCHANGED <<file, serialized, runs, mailbox, gap, persisted, dry_run, run, file0, feeds_cache,
                   i, mail_reports, stdout, sent, smtp, writes>>

\* feedparser.parse or from_raw_feed_entry raises: the exception leaves main.
FetchFail(p) ==
    /\ pc[p] = "fetch"
    /\ pc' = [pc EXCEPT ![p] = "raised_fetch"]
    /\ UNCHANGED <<file, serialized, runs, mailbox, gap, persisted, locals>>

\* Lines 139-141: feed_cache with the ids of the new entries appended.
append_ids_reversed(list, entries, dry) ==
    IF dry THEN list ELSE EntryIds(entries) \o list

append_ids(list, entries, dry) ==
    IF dry THEN list ELSE list \o EntryIds(entries)

\* An assignment that replaces the whole mapping by the feed's item.
store_only(cache, name, list, dry) ==
    IF dry THEN cache ELSE <<[k |-> name, v |-> list]>>

\* Line 143: self.feeds_cache[feed.name] = feed_cache
store_feed_cache(cache, name, list, dry) ==
    IF dry THEN cache ELSE DictSet(cache, name, list)

\* Lines 139-143: the ids of the new entries go to the in-memory cache.
UpdateCache(p) ==
    /\ pc[p] = "update"
    /\ LET feed == feeds[i[p]]
           entries == DictGet(result[p], feed.name, <<>>)
           list == append_ids(feed_cache[p], entries, dry_run[p])
       IN  /\ feed_cache' = [feed_cache EXCEPT ![p] = list]
           /\ feeds_cache' = [feeds_cache EXCEPT ![p] =
                                 store_feed_cache(feeds_cache[p], feed.name, list, dry_run[p])]
    /\ raw' = [raw EXCEPT ![p] = <<>>]
    /\ i' = [i EXCEPT ![p] = i[p] + 1]
    /\ pc' = [pc EXCEPT ![p] = IF i[p] + 1 > Len(feeds) THEN "write" ELSE "fetch"]
    /\ UNCHANGED <<file, serialized, runs, mailbox, gap, persisted, dry_run, run, file0,
                   result, mail_reports, stdout, sent, smtp, writes>>

\* A fetch_all that writes a cache without keys.
written_empty(cache) == dumps(<<>>)

\* Line 146: the text that write_text puts in the cache file.
written(cache) == dumps(cache)

\* The file old after text has been written at its offset 0: the text, then
\* what old holds beyond the length of the text.
write_at_start(old, text) == text \o SubSeq(old, Len(text) + 1, Len(old))

\* The <<name, id>> pairs a cache mapping holds.
PairsOf(cache) ==
    UNION { { <<cache[n].k, cache[n].v[m]>> : m \in 1..Len(cache[n].v) } : n \in 1..Len(cache) }

\* Lines 145 and 148: in a dry run fetch_all returns without touching the file.
NoWrite(p) ==
    /\ pc[p] = "write"
    /\ dry_run[p]
    /\ pc' = [pc EXCEPT ![p] = "compose"]
    /\ UNCHANGED <<file, serialized, runs, mailbox, gap, persisted, dry_run, run, file0,
                   feeds_cache, i, feed_cache, raw, result, mail_reports, stdout, sent,
                   smtp, writes>>

\* Line 146, Path.write_text: open(mode='w') truncates the cache file.  It
\* stays empty until the text is written, and other invocations run meanwhile.
\* (The text is shorter than the stream buffer, so it reaches the file whole.)
OpenCache(p) ==
    /\ pc[p] = "write"
    /\ ~dry_run[p]
    /\ file' = truncated
    /\ pc' = [pc EXCEPT ![p] = "writing"]
    /\ UNCHANGED <<serialized, runs, mailbox, gap, persisted, dry_run, run, file0,
                   feeds_cache, i, feed_cache, raw, result, mail_reports, stdout, sent,
                   smtp, writes>>

\* A write_text that closes the file without writing.
SkipWriteCache(p) ==
    /\ pc[p] = "writing"
    /\ pc' = [pc EXCEPT ![p] = "compose"]
    /\ UNCHANGED <<file, serialized, runs, mailbox, gap, persisted, dry_run, run, file0,
                   feeds_cache, i, feed_cache, raw, result, mail_reports, stdout, sent,
                   smtp, writes>>

\* Lines 146-148, Path.write_text: the text is written where the file was
\* opened, at offset 0, over what another invocation may have written since
\* (the file is not truncated again); the file is closed and fetch_all
\* returns.
WriteCache(p) ==
    /\ pc[p] = "writing"
    /\ file' = write_at_start(file, written(feeds_cache[p]))
    /\ writes' = [writes EXCEPT ![p] = writes[p] + 1]
    /\ persisted' = persisted \cup PairsOf(feeds_cache[p])
    /\ pc' = [pc EXCEPT ![p] = "compose"]
    /\ UNCHANGED <<serialized, runs, mailbox, gap, dry_run, run, file0, feeds_cache,
                   i, feed_cache, raw, result, mail_reports, stdout, sent, smtp>>

(***************************************************************************)
(* main, lines 29-41: one report per feed that has new entries, appended   *)
(* to mail_reports, or printed in a dry run.                               *)
(***************************************************************************)
RECURSIVE compose_loop(_, _, _, _)
compose_loop(new_entries, n, dry, acc) ==
    IF n > Len(new_entries) THEN acc
    ELSE LET feed_name == new_entries[n].k
             entries == new_entries[n].v
         IN  IF Len(entries) = 0
             THEN compose_loop(new_entries, n + 1, dry, acc)
             ELSE LET mail_report == create_mail_text(feed_name, entries)
                  IN  compose_loop(new_entries, n + 1, dry,
                         IF ~dry
                         THEN [acc EXCEPT !.mail_reports = Append(@, mail_report)]
                         ELSE [acc EXCEPT !.stdout = Append(@, mail_report)])

\* A main that queues the reports of a dry run too.
compose_queue_always(new_entries, dry) ==
    compose_loop(new_entries, 1, FALSE, [mail_reports |-> <<>>, stdout |-> <<>>])

compose(new_entries, dry) ==
    compose_loop(new_entries, 1, dry, [mail_reports |-> <<>>, stdout |-> <<>>])

Compose(p) ==
    /\ pc[p] = "compose"
    /\ LET out == compose(result[p], dry_run[p])
       IN  /\ mail_reports' = [mail_reports EXCEPT ![p] = out.mail_reports]
           /\ stdout' = [stdout EXCEPT ![p] = out.stdout]
    /\ pc' = [pc EXCEPT ![p] = "send_mails"]
    /\ UNCHANGED <<file, serialized, runs, mailbox, gap, persisted, dry_run, run, file0, feeds_cache,
                   i, feed_cache, raw, result, sent, smtp, writes>>

(***************************************************************************)
(* Runner.send_mails.                                                      *)
(***************************************************************************)
\* Lines 197-198: nothing to send, no connection; main returns 0.
SendMailsEmpty(p) ==
    /\ pc[p] = "send_mails"
    /\ Len(mail_reports[p]) = 0
    /\ pc' = [pc EXCEPT ![p] = "exit0"]
    /\ UNCHANGED <<file, serialized, runs, mailbox, gap, persisted, locals>>

\* Lines 200-212: SMTP or SMTP_SSL connects, ehlo, starttls when configured.
SmtpConnect(p) ==
    /\ pc[p] = "send_mails"
    /\ Len(mail_reports[p]) # 0
    /\ smtp' = [smtp EXCEPT ![p] =
                   IF mail_config.smtp_protocol = "ssl" THEN "connected_ssl"
                   ELSE IF mail_config.smtp_protocol = "tls" THEN "connected_starttls"
                   ELSE "connected_plain"]
    /\ pc' = [pc EXCEPT ![p] = "login"]
    /\ UNCHANGED <<file, serialized, runs, mailbox, gap, persisted, dry_run, run, file0, feeds_cache,
                   i, feed_cache, raw, result, mail_reports, stdout, sent, writes>>

\* Line 214: conn.login
SmtpLogin(p) ==
    /\ pc[p] = "login"
    /\ smtp' = [smtp EXCEPT ![p] = "authenticated"]
    /\ pc' = [pc EXCEPT ![p] = "sendmail"]
    /\ UNCHANGED <<file, serialized, runs, mailbox, gap, persisted, dry_run, run, file0, feeds_cache,
                   i, feed_cache, raw, result, mail_reports, stdout, sent, writes>>

\* Lines 216-217: the next mail of the batch is accepted by the server.
SendMail(p) ==
    /\ pc[p] = "sendmail"
    /\ sent[p] < Len(mail_reports[p])
    /\ mailbox' = mailbox \cup {[run |-> run[p], mail |-> mail_reports[p][sent[p] + 1]]}
    /\ sent' = [sent EXCEPT ![p] = sent[p] + 1]
    /\ UNCHANGED <<file, serialized, runs, gap, persisted, pc, dry_run, run, file0, feeds_cache,
                   i, feed_cache, raw, result, mail_reports, stdout, smtp, writes>>

\* Line 219 and main's return 0.
SmtpQuit(p) ==
    /\ pc[p] = "sendmail"
    /\ sent[p] = Len(mail_reports[p])
    /\ smtp' = [smtp EXCEPT ![p] = "closed"]
    /\ pc' = [pc EXCEPT ![p] = "exit0"]
    /\ UNCHANGED <<file, serialized, runs, mailbox, gap, persisted, dry_run, run, file0, feeds_cache,
                   i, feed_cache, raw, result, mail_reports, stdout, sent, writes>>

\* The new entries of a run, as [run, name, id].
NewEntriesOf(p) ==
    UNION { { [run |-> run[p], name |-> result[p][n].k, id |-> result[p][n].v[m].id] :
                 m \in 1..Len(result[p][n].v) } : n \in 1..Len(result[p]) }

\* smtplib raises at the connection, at login, at a sendmail or at quit: the
\* exception leaves main, the remaining mails are not sent.
SmtpFail(p) ==
    /\ \/ pc[p] = "send_mails" /\ Len(mail_reports[p]) # 0
       \/ pc[p] \in {"login", "sendmail"}
    /\ gap' = gap \cup NewEntriesOf(p)
    /\ pc' = [pc EXCEPT ![p] = "raised_smtp"]
    /\ UNCHANGED <<file, serialized, runs, mailbox, persisted, locals>>

(***************************************************************************)
(* The program, run again and again by its scheduler.                      *)
(***************************************************************************)
Next ==
    \E p \in Procs :
        \/ Start(p)
        \/ StartFail(p)
        \/ FetchFeed(p)
        \/ FetchFail(p)
        \/ UpdateCache(p)
        \/ NoWrite(p)
        \/ OpenCache(p)
        \/ WriteCache(p)
        \/ Compose(p)
        \/ SendMailsEmpty(p)
        \/ SmtpConnect(p)
        \/ SmtpLogin(p)
        \/ SendMail(p)
        \/ SmtpQuit(p)
        \/ SmtpFail(p)

\* Invocations one after the other.
Spec == Init /\ [][Next]_vars

\* Invocations that may overlap.
SpecConc == InitConc /\ [][Next]_vars

(***************************************************************************)
(* Notions the properties are stated with.                                 *)
(***************************************************************************)
\* The elements of a list.
Elems(l) == { l[n] : n \in 1..Len(l) }

\* l is the beginning of m.
IsPrefix(l, m) == \E k \in 0..Len(m) : l = SubSeq(m, 1, k)

\* No element of l occurs twice.
NoDup(l) == Cardinality(Elems(l)) = Len(l)

\* The entries of raw_entries whose id is not in C, in the order of raw_entries.
Unseen(raw_entries, C) ==
    LET IsNew(e) == e.id \notin Elems(C)
    IN  SelectSeq([n \in 1..Len(raw_entries) |-> from_raw_feed_entry(raw_entries[n])], IsNew)

\* Two mappings are equal (Python ==): the same keys with the same values.
DictEq(d, e) ==
    /\ DictKeys(d) = DictKeys(e)
    /\ \A key \in DictKeys(d) : DictGet(d, key, <<>>) = DictGet(e, key, <<>>)

\* The cached list of a feed in a cache file (empty without a key, and in a
\* file that is no complete document).
CachedIn(text, name) ==
    IF JSONDecodeError(text) THEN <<>> ELSE DictGet(loads(text), name, <<>>)

\* The cache mapping the invocation read at its start.
Snapshot(p) == loads(file0[p])

\* The invocation has started and read the cache file (it may have ended).
Started(p) == pc[p] \notin {"idle", "raised_init"}

\* The feed fetch_all is at.
FeedAt(p) == feeds[i[p]]

\* The configured feed names.
FeedNames == { feeds[n].name : n \in 1..Len(feeds) }

\* The new entries fetch_all recorded for a feed.
NewEntries(p, name) == DictGet(result[p], name, <<>>)

\* The mails of the mailbox that run r sent.
MailsOf(r) == { m \in mailbox : m.run = r }

\* Entry id of feed name is reported by a mail that run r sent.
Notified(r, name, id) ==
    \E m \in MailsOf(r) : m.mail.about.name = name /\ id \in Elems(m.mail.about.ids)

(***************************************************************************)
(* C1.  Feed.fetch(C) returns exactly the fetched entries whose id is not  *)
(* in C, in their fetched order; none of them is in the cache snapshot of  *)
(* the start of the run; and C, the list the cache holds for the feed, is  *)
(* as it was when fetch was called.                                        *)
(***************************************************************************)
C1_FetchReturnsUnseenInOrder ==
    \A p \in Procs :
        pc[p] = "update" =>
            /\ NewEntries(p, FeedAt(p).name) = Unseen(raw[p], feed_cache[p])
            /\ \A id \in Elems(EntryIds(NewEntries(p, FeedAt(p).name))) :
                   id \notin Elems(DictGet(Snapshot(p), FeedAt(p).name, <<>>))
            /\ feed_cache[p] = DictGet(feeds_cache[p], FeedAt(p).name, <<>>)

\* fetch returned after dropping a cached entry and keeping a new one.
C1_Witness ==
    \E p \in Procs :
        /\ pc[p] = "update"
        /\ Len(feed_cache[p]) > 0
        /\ Len(NewEntries(p, FeedAt(p).name)) > 0
        /\ Len(NewEntries(p, FeedAt(p).name)) < Len(raw[p])

(***************************************************************************)
(* C2.  A dry run changes nothing: while and after it runs the in-memory   *)
(* cache and the cache file are what they were at its start, it opens no   *)
(* SMTP connection and sends no mail; and the new entries of a feed, in a  *)
(* dry run as in any other, are the fetched entries that are not in the    *)
(* start-of-run cache of that feed.                                        *)
(***************************************************************************)
C2_DryRunChangesNothing ==
    \A p \in Procs :
        /\ (Started(p) /\ dry_run[p]) =>
               /\ feeds_cache[p] = Snapshot(p)
               /\ file = file0[p]
               /\ writes[p] = 0
               /\ smtp[p] = "none"
               /\ mail_reports[p] = <<>>
               /\ MailsOf(run[p]) = {}
               /\ pc[p] \notin {"writing", "login", "sendmail", "raised_smtp"}
        /\ pc[p] = "update" =>
               NewEntries(p, FeedAt(p).name)
                   = Unseen(raw[p], DictGet(Snapshot(p), FeedAt(p).name, <<>>))

\* A dry run that found new entries for both feeds has ended.
C2_Witness ==
    \E p \in Procs :
        /\ dry_run[p]
        /\ pc[p] = "exit0"
        /\ Len(stdout[p]) = Len(feeds)

(***************************************************************************)
(* C3.  With the runs serialized, an entry of a feed is reported by the    *)
(* mails of at most one run.                                               *)
(***************************************************************************)
C3_NeverRenotified ==
    \A m1, m2 \in mailbox :
        (m1.run # m2.run /\ m1.mail.about.name = m2.mail.about.name)
            => Elems(m1.mail.about.ids) \cap Elems(m2.mail.about.ids) = {}

\* Two runs have sent a mail for the same feed, the second one after it
\* fetched the entry the first one reported.
C3_Witness ==
    \E m1, m2 \in mailbox :
        /\ m1.run < m2.run
        /\ m1.mail.about.name = m2.mail.about.name
        /\ \E p \in Procs :
              /\ run[p] = m2.run
              /\ Elems(m1.mail.about.ids) \subseteq Elems(CachedIn(file0[p], m1.mail.about.name))

(***************************************************************************)
(* C4.  Cache monotonicity, with the runs serialized.  The cache file      *)
(* changes only in the write of a run without --dry-run: the file the run  *)
(* found at its start is emptied when it is opened, and the text written   *)
(* then holds, for every name, the list the run found at its start         *)
(* followed by the ids of the run's new entries for that name, in the      *)
(* order they were found (none for a name that is not configured).  So     *)
(* from one complete cache file to the next no id is removed or moved.     *)
(***************************************************************************)
C4_CacheMonotonic ==
    [][ file' # file =>
          \E p \in Procs :
              /\ ~dry_run[p]
              /\ \/ /\ pc[p] = "write" /\ pc'[p] = "writing"
                     /\ file = file0[p]
                     /\ file' = truncated
                 \/ /\ pc[p] = "writing" /\ pc'[p] = "compose"
                     /\ file = truncated
                     /\ ~JSONDecodeError(file')
                     /\ \A name \in AllNames :
                           /\ IsPrefix(CachedIn(file0[p], name), CachedIn(file', name))
                           /\ CachedIn(file', name)
                                  = CachedIn(file0[p], name) \o EntryIds(NewEntries(p, name)) ]_vars

\* A run has appended new ids to a list that was not empty, in a cache file
\* that also holds a feed that is not configured.
C4_Witness ==
    \E p \in Procs :
        /\ writes[p] = 1
        /\ Len(CachedIn(file0[p], "old")) > 0
        /\ \E name \in FeedNames :
              /\ Len(CachedIn(file0[p], name)) > 0
              /\ Len(NewEntries(p, name)) > 0
              /\ Len(CachedIn(file, name)) > Len(CachedIn(file0[p], name))

(***************************************************************************)
(* C5.  Cache persistence is all-or-nothing per run: outside the write     *)
(* itself, where the file is empty, the cache file is either what the run  *)
(* found at its start, or that content with the new ids of every           *)
(* configured feed appended; it is the former in a dry run, in a run that  *)
(* could not read the cache file and in a run that a failed fetch aborted, *)
(* whichever feed failed, and the latter once fetch_all has returned in    *)
(* any other run.  A run that a failed fetch aborted sends no mail.        *)
(***************************************************************************)
\* cache with, for the n-th configured feed and the ones after it, the ids of
\* its new entries appended to its list.
RECURSIVE AppendedFrom(_, _, _)
AppendedFrom(cache, new_entries, n) ==
    IF n > Len(feeds) THEN cache
    ELSE AppendedFrom(
             DictSet(cache, feeds[n].name,
                     DictGet(cache, feeds[n].name, <<>>)
                         \o EntryIds(DictGet(new_entries, feeds[n].name, <<>>))),
             new_entries, n + 1)

C5_AllOrNothing ==
    \A p \in Procs :
        /\ pc[p] = "raised_init" =>
               (file = file0[p] /\ writes[p] = 0 /\ MailsOf(run[p]) = {} /\ smtp[p] = "none")
        /\ Started(p) =>
            /\ \/ file = file0[p]
               \/ pc[p] = "writing" /\ file = truncated
               \/ /\ DictKeys(result[p]) = FeedNames
                  /\ file = dumps(AppendedFrom(Snapshot(p), result[p], 1))
            /\ (dry_run[p] \/ pc[p] \in {"fetch", "update", "write", "raised_fetch"})
                   => file = file0[p]
            /\ pc[p] = "writing" => (file = truncated /\ DictKeys(result[p]) = FeedNames)
            /\ (~dry_run[p]
                  /\ pc[p] \notin {"fetch", "update", "write", "writing", "raised_fetch"})
                   => file = dumps(AppendedFrom(Snapshot(p), result[p], 1))
            /\ pc[p] = "raised_fetch" => (MailsOf(run[p]) = {} /\ smtp[p] = "none")

\* The fetch of the second feed failed after the first feed's new ids went to
\* the in-memory cache.
C5_Witness ==
    \E p \in Procs :
        /\ pc[p] = "raised_fetch"
        /\ ~dry_run[p]
        /\ i[p] = 2
        /\ Len(NewEntries(p, feeds[1].name)) > 0
        /\ feeds_cache[p] # Snapshot(p)

(***************************************************************************)
(* C6 as claimed.  In a run without --dry-run the cache file is written    *)
(* exactly once, after every feed has been fetched and diffed and after    *)
(* all messages have been composed, and before any mail is handed to SMTP. *)
(***************************************************************************)
\* main has composed the reports of every feed that has new entries.
Composed(p) == mail_reports[p] = compose(result[p], FALSE).mail_reports

C6_WriteAfterCompose ==
    \A p \in Procs :
        /\ writes[p] <= 1
        /\ (~dry_run[p] /\ pc[p] = "exit0") => writes[p] = 1
        /\ writes[p] = 1 => (DictKeys(result[p]) = FeedNames /\ Composed(p))
        /\ (MailsOf(run[p]) # {} \/ smtp[p] # "none") => writes[p] = 1

(***************************************************************************)
(* C6.  In a run without --dry-run whose fetches all succeed the cache     *)
(* file is written exactly once, and not at all in one that a failed fetch *)
(* aborts; the write happens after every feed has been fetched and diffed, *)
(* before any message is composed and before any mail is handed to SMTP.   *)
(***************************************************************************)
C6_WriteOnceBeforeCompose ==
    \A p \in Procs :
        /\ writes[p] <= 1
        /\ (~dry_run[p] /\ pc[p] \in {"compose", "send_mails", "login", "sendmail",
                                      "exit0", "raised_smtp"}) => writes[p] = 1
        /\ pc[p] \in {"raised_init", "fetch", "update", "write", "writing", "raised_fetch"}
               => writes[p] = 0
        /\ pc[p] = "writing" =>
               (~dry_run[p] /\ DictKeys(result[p]) = FeedNames /\ i[p] > Len(feeds))
        /\ writes[p] = 1 =>
               (~dry_run[p] /\ DictKeys(result[p]) = FeedNames /\ i[p] > Len(feeds))
        /\ (writes[p] = 0 \/ pc[p] = "compose") => mail_reports[p] = <<>>
        /\ (MailsOf(run[p]) # {} \/ smtp[p] # "none") => (writes[p] = 1 /\ Composed(p))

\* The cache file has been written and the reports of the new entries are not
\* composed yet.
C6_Witness ==
    \E p \in Procs :
        /\ pc[p] = "compose"
        /\ writes[p] = 1
        /\ file # file0[p]
        /\ ~Composed(p)

(***************************************************************************)
(* C7.  Consistency gap: when send_mails fails in a run without --dry-run, *)
(* at the connection, at login or at any mail of the batch, the ids of all *)
(* new entries of that run are in the cache file and stay there (a later   *)
(* run that has emptied the file for its write is about to write them), no *)
(* later run has any of them among its new entries or in a mail, and those *)
(* whose mail was not sent are never notified.                             *)
(***************************************************************************)
C7_ConsistencyGap ==
    LET doc == Decode(file)
    IN
    \A g \in gap :
        /\ doc.ok => g.id \in Elems(DictGet(doc.v, g.name, <<>>))
        /\ \A p \in Procs :
              pc[p] = "writing" => g.id \in Elems(DictGet(feeds_cache[p], g.name, <<>>))
        /\ \A p \in Procs :
              (Started(p) /\ run[p] > g.run) =>
                  g.id \notin Elems(EntryIds(NewEntries(p, g.name)))
        /\ \A r \in 1..MaxRuns : r > g.run => ~Notified(r, g.name, g.id)
        /\ ~Notified(g.run, g.name, g.id) => \A r \in 1..MaxRuns : ~Notified(r, g.name, g.id)

\* send_mails failed after the first mail of two; a later run without
\* --dry-run found new entries, mailed them and ended.
C7_Witness ==
    \E g1, g2 \in gap :
        /\ g1.run = g2.run
        /\ Notified(g1.run, g1.name, g1.id)
        /\ ~Notified(g2.run, g2.name, g2.id)
        /\ \E p \in Procs :
              /\ run[p] > g2.run
              /\ ~dry_run[p]
              /\ pc[p] = "exit0"
              /\ MailsOf(run[p]) # {}

(***************************************************************************)
(* C8.  With the runs serialized no entry is mailed by two runs, no id     *)
(* that a run has written to the cache file is missing from a later        *)
(* complete cache file or from the text a run is about to write, and no    *)
(* run finds the cache file emptied by another or leaves it with text      *)
(* that is no JSON document.  Both the double mail and the lost update     *)
(* happen when two runs without --dry-run overlap (C8_Witness).            *)
(***************************************************************************)
\* Two runs have mailed the same entry of a feed.
DoubleMail ==
    \E m1, m2 \in mailbox :
        /\ m1.run # m2.run
        /\ m1.mail.about.name = m2.mail.about.name
        /\ Elems(m1.mail.about.ids) \cap Elems(m2.mail.about.ids) # {}

\* An id that a run wrote to the cache file is not in the file, which no run
\* is writing.
LostUpdate ==
    /\ ~JSONDecodeError(file)
    /\ ~(persisted \subseteq PairsOf(loads(file)))

\* A run has emptied the file and the text it is about to write lacks an id
\* that a run wrote before.
LosingUpdate ==
    \E p \in Procs : pc[p] = "writing" /\ ~(persisted \subseteq PairsOf(feeds_cache[p]))

\* A run could not read the cache file.
FailedStart == \E p \in Procs : pc[p] = "raised_init"

\* No run is writing the cache file and it is no JSON document: a run wrote
\* a shorter text over the text of another.
CorruptCache == JSONDecodeError(file) /\ \A p \in Procs : pc[p] # "writing"

C8_SerializedRunsAreSafe ==
    serialized =>
        (~DoubleMail /\ ~LostUpdate /\ ~LosingUpdate /\ ~FailedStart /\ ~CorruptCache)

\* Two overlapping runs have ended: both mailed the same entry, and the cache
\* file lacks an id that one of them wrote.
C8_Witness ==
    /\ ~serialized
    /\ \A p \in Procs : pc[p] = "exit0" /\ ~dry_run[p] /\ writes[p] = 1
    /\ DoubleMail
    /\ LostUpdate

(***************************************************************************)
(* C9 as claimed.  A run without --dry-run in which no configured feed has *)
(* a new entry writes a mapping equal to the one it read at startup, also  *)
(* when a configured feed has no key in the cache file.                    *)
(***************************************************************************)
\* A run without --dry-run found no new entry and has written the cache file.
NoOpWritten(p) ==
    /\ ~dry_run[p]
    /\ writes[p] = 1
    /\ \A name \in FeedNames : NewEntries(p, name) = <<>>

C9_NoOpRewriteEqual ==
    \A p \in Procs : NoOpWritten(p) => DictEq(loads(file), Snapshot(p))

(***************************************************************************)
(* C9.  A run without --dry-run in which no configured feed has a new      *)
(* entry writes back every key it read at startup, in the same order and   *)
(* with the same list, followed by a key with an empty list for each       *)
(* configured feed that had none; the file is unchanged when every         *)
(* configured feed had a key.                                              *)
(***************************************************************************)
C9_NoOpRewrite ==
    \A p \in Procs :
        NoOpWritten(p) =>
            LET read == Snapshot(p)
                wrote == loads(file)
            IN  /\ ~JSONDecodeError(file)
                /\ IsPrefix(read, wrote)
                /\ DictKeys(wrote) = DictKeys(read) \cup FeedNames
                /\ \A name \in DictKeys(wrote) \ DictKeys(read) :
                       DictGet(wrote, name, <<"none">>) = <<>>
                /\ \A name \in AllNames :
                       DictGet(wrote, name, <<>>) = DictGet(read, name, <<>>)
                /\ FeedNames \subseteq DictKeys(read) => file = file0[p]

\* The no-op run found a cache file with keys, none of them for the first feed.
C9_Witness ==
    \E p \in Procs :
        /\ NoOpWritten(p)
        /\ DictKeys(Snapshot(p)) # {}
        /\ feeds[1].name \notin DictKeys(Snapshot(p))
        /\ file # file0[p]

(***************************************************************************)
(* C10 as claimed.  From a cache without repeated ids, no cached list of   *)
(* the cache file and no new-entry list ever holds the same id twice, also *)
(* when the urls of a feed return entries that share an id.                *)
(***************************************************************************)
C10_NoDuplicateIds ==
    /\ \A name \in AllNames : NoDup(CachedIn(file, name))
    /\ \A p \in Procs : \A name \in FeedNames : NoDup(EntryIds(NewEntries(p, name)))

(***************************************************************************)
(* C10.  From a cache without repeated ids, no cached list (in the file or *)
(* in memory) and no new-entry list holds the same id twice for as long as *)
(* no fetch of a feed returns the same id twice, that is, from two of its  *)
(* urls: a step keeps the lists free of repeated ids unless it is such a   *)
(* fetch.                                                                  *)
(***************************************************************************)
\* No list of the cache file text holds an id twice.
NoDupIn(text) ==
    LET doc == Decode(text)
    IN  IF doc.ok THEN \A n \in 1..Len(doc.v) : NoDup(doc.v[n].v) ELSE TRUE

\* No list of an invocation (its feed_cache, its cache mapping, its new
\* entries) holds an id twice.
NoDupAmong(lists, caches, results) ==
    \A p \in Procs :
        /\ NoDup(lists[p])
        /\ \A n \in 1..Len(caches[p]) : NoDup(caches[p][n].v)
        /\ \A n \in 1..Len(results[p]) : NoDup(EntryIds(results[p][n].v))

NoDupLists == NoDupAmong(feed_cache, feeds_cache, result) /\ NoDupIn(file)

\* What fetch_raw returned holds no id twice.
NoSharedId(raws) == \A p \in Procs : NoDup(EntryIds(raws[p]))

C10_NoDuplicateWithoutSharedIds ==
    [][ (NoSharedId(raw') /\ NoDupAmong(feed_cache, feeds_cache, result) /\ NoDupIn(file))
            => /\ NoDupAmong(feed_cache', feeds_cache', result')
               /\ IF file' = file THEN TRUE ELSE NoDupIn(file') ]_vars

\* The second run has appended two new ids to a feed's list, and nothing is
\* listed twice.
C10_Witness ==
    /\ NoDupLists
    /\ \E p \in Procs :
          /\ run[p] = 2
          /\ writes[p] = 1
          /\ \E name \in FeedNames :
                /\ Len(NewEntries(p, name)) = 2
                /\ Len(CachedIn(file, name)) >= 2

====
